---- MODULE Spec2Model ----
(***************************************************************************)
(* A model of the 7shifts sync engine (lib7shifts/cmd/sync.py, dates.py):  *)
(* the home-made upsert against the relational sink, the chunked receipt   *)
(* writer, and the date-window resolver.                                   *)
(*                                                                         *)
(* The relational sink is a map from table names to tables; a table is a   *)
(* record [exists, rows], rows being the sequence of stored rows in        *)
(* insertion order.  A row is a record [id, v]: id is the value of the     *)
(* first index column of the data frame, v stands for the remaining        *)
(* columns (for a MultiIndex frame v is also the second index column).     *)
(***************************************************************************)
EXTENDS Integers, Sequences, FiniteSets, TLC

VARIABLES
    db,          \* committed state of the sink: table name -> table
    conn,        \* the state seen inside the open transaction of db_upsert
    pc,          \* position inside db_upsert
    table,       \* db_upsert argument: destination table name
    data_frame,  \* db_upsert argument: [rows, keys]
    retval,      \* outcome of the last db_upsert call
    pre,         \* the committed sink state when the current call started
    ops,         \* sink operations (and warnings) of the current call, in order
    repeat,      \* TRUE when the current call repeats the previous one
    latest,      \* first key -> the rows of that key in the last frame upserted
    entity,      \* the entity type whose sync function this run exercises
    sync,        \* the sync function that ran last: [fn, rows, ret, status]
    requests,    \* the calls the run has made to the 7shifts API, in order
    rpc,         \* position inside sync_receipt_data
    api,         \* upstream receipts of the run: location id -> records
    chunk_size,  \* sync_receipt_data argument
    locations,   \* locations the for loop has still to visit
    location,    \* the location of the current iteration (0: none)
    data,        \* what the receipt generator has still to yield
    chunk,       \* the buffer
    written,     \* rows written so far
    flushes,     \* the buffers handed to _sync_receipt_chunk, in order
    args,        \* the command line options given to parse_dates
    clock,       \* date.today() of the host, as <<year, month, day>>
    utcoffset,   \* the host's local UTC offset, in seconds east of UTC
    dates,       \* what parse_dates returned
    dpc,         \* position of the date-window resolver
    calls,       \* two db_upsert invocations running at once, one per caller
    selected,    \* main: the commands and flags of args that are set
    company_id,  \* main: args['--company-id'] (0: not given)
    companies,   \* main: the companies frame, [ids, indexed]
    mpc,         \* main: the statement main is at
    ci,          \* main: position of the for loop in the companies frame
    trace,       \* main: the sync functions called so far and how each ended
    outcome      \* main: how the run ended

upsertVars ==
    <<db, conn, pc, table, data_frame, retval, pre, ops, repeat, latest>>

syncVars == <<entity, sync, requests>>

receiptVars ==
    <<rpc, api, chunk_size, locations, location, data, chunk, written, flushes>>

dateVars == <<args, clock, utcoffset, dates, dpc>>

concVars == <<calls>>

mainVars == <<selected, company_id, companies, mpc, ci, trace, outcome>>

nonUpsertVars == <<syncVars, receiptVars, dateVars, concVars, mainVars>>

callVars == <<conn, pc, table, data_frame, retval, repeat, latest>>

vars == <<upsertVars, syncVars, receiptVars, dateVars, concVars, mainVars>>

(***************************************************************************)
(* Bounds of the model.                                                    *)
(***************************************************************************)
MaxBatch == 2
MaxId == 2
MaxStream == 4
MaxChunk == 2
MaxStations == 2
MaxDates == 2

Ids == 1..MaxId
Vals == {1, 2}
Row == [id : Ids, v : Vals]

\* Index shapes of a data frame: no index name, a named index, a MultiIndex.
KeyShapes == {<< >>, <<"id">>, <<"id", "v">>}

Range(seq) == {seq[i] : i \in 1..Len(seq)}

SeqsUpTo(S, n) == UNION {[1..k -> S] : k \in 0..n}

\* The first index column of every row of a table.
FirstKeys(rows) == {rows[i].id : i \in 1..Len(rows)}

\* sync.py:121 "The first data frame index is assumed to be primary": the
\* rows of one frame carry pairwise distinct values of the first index.
PrimaryIndex(rows) == Cardinality(FirstKeys(rows)) = Len(rows)

DataFrames ==
    [rows : {r \in SeqsUpTo(Row, MaxBatch) : PrimaryIndex(r)}, keys : KeyShapes]

NoFrame == [rows |-> << >>, keys |-> << >>]

(***************************************************************************)
(* Table names.  A name is a pair <<prefix, base>>; destination tables     *)
(* have the empty prefix.                                                  *)
(***************************************************************************)
tmp_table_prefix == "upsert_tmp_"

Dest(base) == <<"", base>>

\* sync.py:139  tmp_table = f"{tmp_table_prefix}{table}"
M_TmpIsDestination(t) == t

TmpTable(t) == <<tmp_table_prefix, t[2]>>

\* The table db_upsert is driven on directly.
Tables == {Dest("receipts")}

\* The destination tables of the sync functions (sync.py:169-418).
SyncTables ==
    {Dest(b) : b \in {"companies", "locations", "departments", "roles",
                      "stations", "users", "wages", "receipts", "shifts",
                      "time_punches", "daily_sales_and_labor"}}

SinkNames == SyncTables \cup {TmpTable(t) : t \in SyncTables}

Absent == [exists |-> FALSE, rows |-> << >>]

EmptySink == [n \in SinkNames |-> Absent]

(***************************************************************************)
(* The sink primitives used by db_upsert.                                  *)
(***************************************************************************)
\* sqlalchemy.inspect(engine).has_table(name)
HasTable(s, n) == s[n].exists

\* DataFrame.to_sql(name, conn, if_exists='replace'): drop, create, insert.
M_CreateEmpty(s, n, frame) ==
    [s EXCEPT ![n] = [exists |-> TRUE, rows |-> << >>]]

ToSqlReplace(s, n, frame) ==
    [s EXCEPT ![n] = [exists |-> TRUE, rows |-> frame.rows]]

\* DataFrame.to_sql(name, conn, if_exists='append'): create if absent, insert.
M_AppendAsReplace(s, n, frame) ==
    [s EXCEPT ![n] = [exists |-> TRUE, rows |-> frame.rows]]

ToSqlAppend(s, n, frame) ==
    [s EXCEPT ![n] = [exists |-> TRUE, rows |-> s[n].rows \o frame.rows]]

\* DELETE FROM {table} WHERE {keys[0]} IN (SELECT {keys[0]} FROM {tmp_table})
M_DeleteNothing(s, t, tmp) == s

M_DeleteByValue(s, t, tmp) ==
    LET gone == {s[tmp].rows[i].v : i \in 1..Len(s[tmp].rows)}
        Kept(r) == r.v \notin gone
    IN  [s EXCEPT ![t].rows = SelectSeq(s[t].rows, Kept)]

M_DeleteByAllKeys(s, t, tmp) ==
    LET gone == Range(s[tmp].rows)
        Kept(r) == r \notin gone
    IN  [s EXCEPT ![t].rows = SelectSeq(s[t].rows, Kept)]

DeleteQuery(s, t, tmp) ==
    LET gone == FirstKeys(s[tmp].rows)
        Kept(r) == r.id \notin gone
    IN  [s EXCEPT ![t].rows = SelectSeq(s[t].rows, Kept)]

\* DROP TABLE {tmp_table}
M_DropKeeps(s, n) == s

M_DropEmpties(s, n) == [s EXCEPT ![n].rows = << >>]

DropTable(s, n) == [s EXCEPT ![n] = Absent]

\* Leaving "with conn.begin():" by an exception rolls the transaction back.
\* The destination is restored; the temp table may stay behind, empty, when
\* the sink creates tables outside the transaction (left is that choice).
M_RollbackKeepsWork(committed, work, t, left) == work

Rollback(committed, work, t, left) ==
    IF left THEN [committed EXCEPT ![TmpTable(t)] = [exists |-> TRUE, rows |-> << >>]]
            ELSE committed

\* The index names of the frame (sync.py:132-136).
M_KeysDefaultLabel(frame) ==
    IF frame.keys = << >> THEN <<"id">> ELSE frame.keys

Keys(frame) == frame.keys

Ok(n) == [status |-> "ok", rows |-> n, at |-> "return"]
Error(where) == [status |-> "error", rows |-> 0, at |-> where]
NoReturn == [status |-> "none", rows |-> 0, at |-> ""]

\* 129-131: logger().warn(...) when more than 5,000 rows are supplied
WarnRows == 5000

SizeWarning(frame) == IF Len(frame.rows) > WarnRows THEN <<"warn">> ELSE << >>

InTxn == pc \in {"tmp", "delete", "drop", "append", "commit"}

DefaultTable == Dest("receipts")

\* What the successful calls so far have upserted: for every first key the
\* rows of that key in the last frame that held it.
NoneStored == [k \in Ids |-> << >>]

Stored(before, frame) ==
    [k \in Ids |->
        LET Has(r) == r.id = k
        IN  IF k \in FirstKeys(frame.rows) THEN SelectSeq(frame.rows, Has)
                                            ELSE before[k]]

(***************************************************************************)
(* db_upsert(table, data_frame), sync.py:115-151.                          *)
(***************************************************************************)
\* Entry: the has_table test, the create path (126-128), the key assertion
\* (132-138) and the opening of the transaction (143-144).  A call made in
\* "done" is the caller upserting the same frame once more.
DbUpsertCall(t, frame) ==
    /\ \/ pc = "idle"
       \/ pc = "done" /\ t = table /\ frame = data_frame
    /\ table' = t
    /\ data_frame' = frame
    /\ pre' = db
    /\ repeat' = (pc = "done" /\ retval.status = "ok")
    /\ IF ~HasTable(db, t)
       THEN /\ db' = ToSqlReplace(db, t, frame)
            /\ conn' = db'
            /\ retval' = Ok(Len(frame.rows))
            /\ ops' = <<"has_table", "begin", "to_sql_replace", "commit">>
            /\ pc' = "done"
            /\ latest' = Stored(latest, frame)
       ELSE IF Keys(frame) = << >>
       THEN /\ retval' = Error("assert")
            /\ ops' = <<"has_table">> \o SizeWarning(frame)
            /\ pc' = "done"
            /\ conn' = db
            /\ UNCHANGED <<db, latest>>
       ELSE /\ conn' = db
            /\ pc' = "tmp"
            /\ retval' = NoReturn
            /\ ops' = <<"has_table">> \o SizeWarning(frame) \o <<"begin">>
            /\ UNCHANGED <<db, latest>>
    /\ UNCHANGED nonUpsertVars

\* 148: data_frame.to_sql(tmp_table, conn, if_exists='replace')
WriteTmp ==
    /\ pc = "tmp"
    /\ conn' = ToSqlReplace(conn, TmpTable(table), data_frame)
    /\ pc' = "delete"
    /\ ops' = Append(ops, "tmp_to_sql_replace")
    /\ UNCHANGED <<db, table, data_frame, retval, pre, repeat, latest>>
    /\ UNCHANGED nonUpsertVars

\* 149: conn.execute(query)
DeleteMatching ==
    /\ pc = "delete"
    /\ HasTable(conn, TmpTable(table))
    /\ conn' = DeleteQuery(conn, table, TmpTable(table))
    /\ pc' = "drop"
    /\ ops' = Append(ops, "delete")
    /\ UNCHANGED <<db, table, data_frame, retval, pre, repeat, latest>>
    /\ UNCHANGED nonUpsertVars

\* 150: DROP TABLE {tmp_table}
DropTmp ==
    /\ pc = "drop"
    /\ HasTable(conn, TmpTable(table))
    /\ conn' = DropTable(conn, TmpTable(table))
    /\ pc' = "append"
    /\ ops' = Append(ops, "drop_tmp")
    /\ UNCHANGED <<db, table, data_frame, retval, pre, repeat, latest>>
    /\ UNCHANGED nonUpsertVars

\* 151: data_frame.to_sql(table, conn, if_exists='append')
AppendRows ==
    /\ pc = "append"
    /\ conn' = ToSqlAppend(conn, table, data_frame)
    /\ pc' = "commit"
    /\ ops' = Append(ops, "to_sql_append")
    /\ UNCHANGED <<db, table, data_frame, retval, pre, repeat, latest>>
    /\ UNCHANGED nonUpsertVars

\* 144/151: the with block is left by the return: commit.
M_CommitNothing(committed, work) == committed

Committed(committed, work) == work

Commit ==
    /\ pc = "commit"
    /\ db' = Committed(db, conn)
    /\ retval' = Ok(Len(data_frame.rows))
    /\ pc' = "done"
    /\ ops' = Append(ops, "commit")
    /\ latest' = Stored(latest, data_frame)
    /\ UNCHANGED <<conn, table, data_frame, pre, repeat>>
    /\ UNCHANGED nonUpsertVars

\* 144: a statement of the transaction (or the commit) raises: rollback.
FailInTxn ==
    /\ InTxn
    /\ \E left \in BOOLEAN :
          /\ left => pc # "tmp"
          /\ db' = Rollback(db, conn, table, left)
    /\ conn' = db'
    /\ retval' = Error(pc)
    /\ pc' = "done"
    /\ ops' = Append(ops, "rollback")
    /\ UNCHANGED <<table, data_frame, pre, repeat, latest>>
    /\ UNCHANGED nonUpsertVars

\* The call has returned (or raised) and its locals are gone.
Return ==
    /\ pc = "done"
    /\ pc' = "idle"
    /\ table' = DefaultTable
    /\ data_frame' = NoFrame
    /\ retval' = NoReturn
    /\ pre' = db
    /\ conn' = db
    /\ ops' = << >>
    /\ repeat' = FALSE
    /\ UNCHANGED <<db, latest>>
    /\ UNCHANGED nonUpsertVars

\* The sink a db_upsert call that raises nowhere leaves behind (126-151).
DbUpsert(s, t, frame) ==
    IF ~HasTable(s, t)
    THEN ToSqlReplace(s, t, frame)
    ELSE LET s1 == ToSqlReplace(s, TmpTable(t), frame)
             s2 == DeleteQuery(s1, t, TmpTable(t))
             s3 == DropTable(s2, TmpTable(t))
         IN  ToSqlAppend(s3, t, frame)

NoSync == [fn |-> "", rows |-> 0, ret |-> 0, status |-> "none"]

\* No db_upsert call is under way on sink s.
UpsertIdle(s) ==
    /\ db = s
    /\ conn = s
    /\ pc = "idle"
    /\ table = DefaultTable
    /\ data_frame = NoFrame
    /\ retval = NoReturn
    /\ pre = s
    /\ ops = << >>
    /\ repeat = FALSE
    /\ latest = NoneStored

UpsertInit == UpsertIdle(EmptySink)

\* The sink db_upsert is driven on: the destination is absent, and the
\* shifts table holds a row from an earlier sync.
NeighbourTable == Dest("shifts")

NeighbourSink ==
    [EmptySink EXCEPT ![NeighbourTable] =
        [exists |-> TRUE, rows |-> <<[id |-> 1, v |-> 1]>>]]

SyncIdle ==
    /\ entity = ""
    /\ sync = NoSync
    /\ requests = << >>

ReceiptIdle ==
    /\ rpc = "idle"
    /\ api = << >>
    /\ chunk_size = 0
    /\ locations = << >>
    /\ location = 0
    /\ data = << >>
    /\ chunk = << >>
    /\ written = 0
    /\ flushes = << >>

\* An absent (or empty) option; also the value of a key a dict lacks.
None == << >>

DatesIdle ==
    /\ args = [modified_since |-> None, start_date |-> None, end_date |-> None]
    /\ clock = <<2024, 1, 1>>
    /\ utcoffset = 0
    /\ dates = None
    /\ dpc = "idle"

\* The callers that may run db_upsert at the same time.
Procs == {1, 2}

NoCall == [pc |-> "idle", frame |-> NoFrame, retval |-> NoReturn, deleted |-> << >>]

ConcIdle == calls = [p \in Procs |-> NoCall]

NoCompanies == [ids |-> << >>, indexed |-> FALSE]

Running == [status |-> "running", error |-> ""]

MainIdle ==
    /\ selected = {}
    /\ company_id = 0
    /\ companies = NoCompanies
    /\ mpc = "idle"
    /\ ci = 0
    /\ trace = << >>
    /\ outcome = Running

Init ==
    /\ UpsertIdle(NeighbourSink)
    /\ SyncIdle /\ ReceiptIdle /\ DatesIdle /\ ConcIdle /\ MainIdle

Next ==
    \/ \E t \in Tables, frame \in DataFrames : DbUpsertCall(t, frame)
    \/ WriteTmp
    \/ DeleteMatching
    \/ DropTmp
    \/ AppendRows
    \/ Commit
    \/ FailInTxn
    \/ Return

Spec == Init /\ [][Next]_vars

(***************************************************************************)
(* The date-window resolver: parse_dates (sync.py:82-112) over dates.py.   *)
(* A date string is the tuple <<year, month, day>> of its fields; an aware *)
(* datetime is [ymd, secs, off]: a calendar date, the seconds into that    *)
(* day and the UTC offset of its tzinfo in seconds.                        *)
(***************************************************************************)
IsLeap(y) == y % 4 = 0 /\ (y % 100 # 0 \/ y % 400 = 0)

DaysInMonth(y, m) ==
    IF m = 2 THEN (IF IsLeap(y) THEN 29 ELSE 28)
    ELSE IF m \in {4, 6, 9, 11} THEN 30 ELSE 31

\* days of the year before the first of month m
RECURSIVE DaysBeforeMonth(_, _)
DaysBeforeMonth(y, m) ==
    IF m = 1 THEN 0 ELSE DaysBeforeMonth(y, m - 1) + DaysInMonth(y, m - 1)

\* days before January 1st of year y, counted from year 1
DaysBeforeYear(y) ==
    LET p == y - 1 IN p * 365 + p \div 4 - p \div 100 + p \div 400

\* date.toordinal()
Ymd2Ord(ymd) ==
    DaysBeforeYear(ymd[1]) + DaysBeforeMonth(ymd[1], ymd[2]) + ymd[3]

\* date.fromordinal(n)
Ord2Ymd(ord) ==
    LET n0 == ord - 1
        n400 == n0 \div 146097
        r400 == n0 % 146097
        n100 == r400 \div 36524
        r100 == r400 % 36524
        n4 == r100 \div 1461
        r4 == r100 % 1461
        n1 == r4 \div 365
        n == r4 % 365
        year == n400 * 400 + 1 + n100 * 100 + n4 * 4 + n1
    IN  IF n1 = 4 \/ n100 = 4
        THEN <<year - 1, 12, 31>>
        ELSE LET month == CHOOSE m \in 1..12 :
                              /\ DaysBeforeMonth(year, m) <= n
                              /\ n < DaysBeforeMonth(year, m) + DaysInMonth(year, m)
             IN  <<year, month, n - DaysBeforeMonth(year, month) + 1>>

\* strptime(date_string, '%Y-%m-%d') accepts the string
ValidDate(str) ==
    /\ Len(str) = 3
    /\ str[2] \in 1..12
    /\ str[3] \in 1..DaysInMonth(str[1], str[2])

\* datetime + timedelta(seconds=s): wall-clock arithmetic, tzinfo kept
PlusSeconds(dt, s) ==
    LET total == dt.secs + s
    IN  [ymd |-> Ord2Ymd(Ymd2Ord(dt.ymd) + total \div 86400),
         secs |-> total % 86400, off |-> dt.off]

\* datetime.timestamp() of an aware datetime: seconds since the epoch
Timestamp(dt) ==
    (Ymd2Ord(dt.ymd) - Ymd2Ord(<<1970, 1, 1>>)) * 86400 + dt.secs - dt.off

\* datetime.fromtimestamp(ts, timezone.utc)
FromTimestampUtc(ts) ==
    [ymd |-> Ord2Ymd(Ymd2Ord(<<1970, 1, 1>>) + ts \div 86400),
     secs |-> ts % 86400, off |-> 0]

\* dates.py:45-47
get_local_tz(off) == off

\* dates.py:19-28: today at 12:00 AM in the local timezone
today(day, off) == [ymd |-> day, secs |-> 0, off |-> get_local_tz(off)]

\* dates.py:38-42
M_YesterdayIsToday(day, off) == today(day, off)

yesterday(day, off) == PlusSeconds(today(day, off), 0 - 86400)

\* dates.py:58-63
to_date(str, tzinfo) == [ymd |-> str, secs |-> 0, off |-> tzinfo]

\* dates.py:66-69
M_ToLocalDateUtc(str, off) == to_date(str, 0)

to_local_date(str, off) == to_date(str, get_local_tz(off))

\* dates.py:97-99
to_y_m_d(dt) == dt.ymd

\* sync.py:97  timedelta(hours=23, minutes=59, seconds=59)
eod == 23 * 3600 + 59 * 60 + 59

\* sync.py:90  if args.get('--modified-since')
M_StartDateFirst(a) == a.modified_since # None /\ a.start_date = None

UseModifiedSince(a) == a.modified_since # None

\* The date strings parse_dates hands to strptime.
Parsed(a) ==
    IF UseModifiedSince(a) THEN {}
    ELSE {a.start_date, a.end_date} \ {None}

\* parse_dates(args), sync.py:82-112
parse_dates(a, day, off) ==
    IF UseModifiedSince(a)
    THEN [modified_since |-> a.modified_since,
          modified_end_ymd |-> to_y_m_d(yesterday(day, off))]
    ELSE LET start_date == IF a.start_date # None
                           THEN to_local_date(a.start_date, off)
                           ELSE yesterday(day, off)
             end_date == IF a.end_date # None
                         THEN PlusSeconds(to_local_date(a.end_date, off), eod)
                         ELSE PlusSeconds(start_date, eod)
         IN  [start |-> FromTimestampUtc(Timestamp(start_date)),
              end |-> FromTimestampUtc(Timestamp(end_date))]

\* The option values tried: days around a year's end and a leap day, and a
\* string strptime rejects.
DateStrings ==
    {<<2023, 12, 30>>, <<2023, 12, 31>>, <<2024, 1, 1>>, <<2024, 2, 28>>,
     <<2024, 2, 29>>, <<2024, 3, 1>>, <<2023, 2, 29>>}

ClockDates == {str \in DateStrings : ValidDate(str)}

ModifiedSinceStrings == {<<2023, 1, 1, 0, 0, 0>>}

\* UTC-08:00, UTC, UTC+05:30, UTC+13:00
UtcOffsets == {0 - 8 * 3600, 0, 5 * 3600 + 1800, 13 * 3600}

Options ==
    [modified_since : ModifiedSinceStrings \cup {None},
     start_date : DateStrings \cup {None},
     end_date : DateStrings \cup {None}]

\* main, sync.py:426: dates = parse_dates(args)
ParseDates ==
    /\ dpc = "start"
    /\ dpc' = "done"
    /\ dates' = IF \A str \in Parsed(args) : ValidDate(str)
                THEN parse_dates(args, clock, utcoffset)
                ELSE [error |-> "ValueError"]
    /\ UNCHANGED <<upsertVars, syncVars, receiptVars, concVars, mainVars, args, clock,
                   utcoffset>>

DatesInit ==
    /\ UpsertInit /\ SyncIdle /\ ReceiptIdle /\ ConcIdle /\ MainIdle
    /\ args \in Options
    /\ clock \in ClockDates
    /\ utcoffset \in UtcOffsets
    /\ dates = None
    /\ dpc = "start"

DatesNext == ParseDates

DatesSpec == DatesInit /\ [][DatesNext]_vars

(***************************************************************************)
(* The sync functions, sync.py:164-419.  Each fetches records, turns them  *)
(* into a frame indexed by id and hands the frame to db_upsert, unless     *)
(* the frame is empty.  The fetched records are the inputs.                *)
(***************************************************************************)
\* The sink operations of a db_upsert call that raises nowhere.
DbUpsertOps(s, t) ==
    IF ~HasTable(s, t)
    THEN <<"has_table", "begin", "to_sql_replace", "commit">>
    ELSE <<"has_table", "begin", "tmp_to_sql_replace", "delete", "drop_tmp",
           "to_sql_append", "commit">>

\* data.set_index('id', drop=True, inplace=True)
SetIndex(rows) == [rows |-> rows, keys |-> <<"id">>]

\* data.set_index(['index_col', 'location_id', 'date'], ...), sync.py:416
SetMultiIndex(rows) == [rows |-> rows, keys |-> <<"id", "v">>]

\* "if len(data) > 0: ...; return db_upsert(table, data)" and "return 0".
M_WriteAlways(s, t, frame) ==
    [db |-> DbUpsert(s, t, frame), ops |-> DbUpsertOps(s, t),
     ret |-> Len(frame.rows)]

WriteIfAny(s, t, frame) ==
    IF Len(frame.rows) > 0
    THEN [db |-> DbUpsert(s, t, frame), ops |-> DbUpsertOps(s, t),
          ret |-> Len(frame.rows)]
    ELSE [db |-> s, ops |-> << >>, ret |-> 0]

\* The loops of sync_wage_data (274-281) and of
\* sync_daily_sales_and_labor_data (405-418): one frame per user or location,
\* each written unless empty, the counts added up.
RECURSIVE WriteEach(_, _, _)
WriteEach(s, t, frames) ==
    IF frames = << >>
    THEN [db |-> s, ops |-> << >>, ret |-> 0]
    ELSE LET w == WriteIfAny(s, t, Head(frames))
             rest == WriteEach(w.db, t, Tail(frames))
         IN  [db |-> rest.db, ops |-> w.ops \o rest.ops, ret |-> w.ret + rest.ret]

RECURSIVE SumLen(_)
SumLen(frames) ==
    IF frames = << >> THEN 0 ELSE Len(Head(frames).rows) + SumLen(Tail(frames))

\* What a list_* call of the API can return: records with distinct ids.
Fetched == {r \in SeqsUpTo(Row, MaxBatch) : PrimaryIndex(r)}

Entities ==
    {"companies", "locations", "departments", "roles", "users", "wages",
     "receipts", "shifts", "punches", "daily_sales_and_labor"}

\* One run makes one call of the sync function of its entity.
SyncStart(e) == entity = e /\ rpc = "idle" /\ sync = NoSync

Ran(fn, n, w) == [fn |-> fn, rows |-> n, ret |-> w.ret, status |-> "ok"]

(***************************************************************************)
(* The keyword arguments the get_*_data functions pass to the API client.  *)
(* date_args is what parse_dates returned, or {} where a caller leaves it  *)
(* out (sync.py:310, 403).                                                 *)
(***************************************************************************)
\* 174-176, 193-195, 212-214, 246-247
CursorKwargs(date_args) ==
    IF "modified_since" \in DOMAIN date_args
    THEN [modified_since |-> date_args.modified_since]
    ELSE << >>

\* 287-292, 331-336, 357-362
M_RangeEndIsStart(date_args, gte, lte) ==
    IF "modified_since" \in DOMAIN date_args
    THEN [modified_since |-> date_args.modified_since]
    ELSE (gte :> date_args.start) @@ (lte :> date_args.start)

RangeKwargs(date_args, gte, lte) ==
    IF "modified_since" \in DOMAIN date_args
    THEN [modified_since |-> date_args.modified_since]
    ELSE (gte :> date_args.start) @@ (lte :> date_args.end)

\* get_location_data, 173-178
LocationKwargs(date_args) == CursorKwargs(date_args)

\* get_department_data, 192-197
DepartmentKwargs(date_args) == CursorKwargs(date_args)

\* get_role_data, 211-214
RoleKwargs(date_args) == CursorKwargs(date_args)

\* get_user_data, 244-249
UserKwargs(date_args, status) == [status |-> status] @@ CursorKwargs(date_args)

\* get_receipt_data, 285-294
M_ReceiptNoLocation(date_args, location_id) ==
    RangeKwargs(date_args, "receipt_date[gte]", "receipt_date[lte]")

ReceiptKwargs(date_args, location_id) ==
    RangeKwargs(date_args, "receipt_date[gte]", "receipt_date[lte]")
        @@ [location_id |-> location_id]

\* get_shift_data, 330-338
ShiftKwargs(date_args) == RangeKwargs(date_args, "start[gte]", "start[lte]")

\* get_punch_data, 356-366, with approved given
PunchKwargs(date_args, approved) ==
    RangeKwargs(date_args, "clocked_in[gte]", "clocked_in[lte]")
        @@ [approved |-> approved]

\* sync_daily_sales_and_labor_data, 394-400 and 406
DailyKwargs(date_args, location_id) ==
    (IF "start" \in DOMAIN date_args
     THEN [start_date |-> to_y_m_d(date_args.start),
           end_date |-> to_y_m_d(date_args.end)]
     ELSE [start_date |-> date_args.modified_since,
           end_date |-> date_args.modified_end_ymd])
        @@ [location_id |-> location_id]

\* One call of the API client and what it returned.
Request(call, kwargs, result) == [api |-> call, kwargs |-> kwargs, result |-> result]

Statuses == {"active", "inactive"}

\* The shape shared by sync_company_data, sync_location_data,
\* sync_deparment_data, sync_user_data, sync_shift_data and sync_punch_data.
SyncFrame(fn, t, rows, req) ==
    LET w == WriteIfAny(db, t, SetIndex(rows))
    IN  /\ pre' = db
        /\ db' = w.db
        /\ ops' = w.ops
        /\ sync' = Ran(fn, Len(rows), w)
        /\ requests' = <<req>>
        /\ UNCHANGED <<callVars, entity, receiptVars, dateVars, concVars, mainVars>>

\* sync.py:164-170
SyncCompanyData ==
    /\ SyncStart("companies")
    /\ \E company \in Fetched :
          SyncFrame("sync_company_data", Dest("companies"), company,
                    Request("list_companies", << >>, company))

\* sync.py:181-189
SyncLocationData ==
    /\ SyncStart("locations")
    /\ \E rows \in Fetched :
          SyncFrame("sync_location_data", Dest("locations"), rows,
                    Request("list_locations", LocationKwargs(dates), rows))

\* sync.py:200-208
SyncDeparmentData ==
    /\ SyncStart("departments")
    /\ \E rows \in Fetched :
          SyncFrame("sync_deparment_data", Dest("departments"), rows,
                    Request("list_departments", DepartmentKwargs(dates), rows))

\* sync.py:252-260
SyncUserData ==
    /\ SyncStart("users")
    /\ \E rows \in Fetched, status \in Statuses :
          SyncFrame("sync_user_data", Dest("users"), rows,
                    Request("list_users", UserKwargs(dates, status), rows))

\* sync.py:341-353
SyncShiftData ==
    /\ SyncStart("shifts")
    /\ \E rows \in Fetched :
          SyncFrame("sync_shift_data", Dest("shifts"), rows,
                    Request("list_shifts", ShiftKwargs(dates), rows))

\* sync.py:369-381
SyncPunchData ==
    /\ SyncStart("punches")
    /\ \E rows \in Fetched, approved \in BOOLEAN :
          SyncFrame("sync_punch_data", Dest("time_punches"), rows,
                    Request("list_punches", PunchKwargs(dates, approved), rows))

(***************************************************************************)
(* Roles, sync.py:211-241.  A fetched role is [id, num_stations]; its      *)
(* nested stations list has num_stations entries.                          *)
(***************************************************************************)
Role == [id : Ids, num_stations : 0..MaxStations]

RoleIds(roles) == {roles[i].id : i \in 1..Len(roles)}

RolesFetched ==
    {r \in SeqsUpTo(Role, MaxBatch) : Cardinality(RoleIds(r)) = Len(r)}

\* role['stations'] as rows of the stations stream
StationsOf(role) ==
    [j \in 1..role.num_stations |->
        [id |-> (role.id - 1) * MaxStations + j, v |-> role.id]]

\* get_role_data, 215-221: the stations of the roles that report some.
RECURSIVE GetStations(_)
GetStations(roles) ==
    IF roles = << >> THEN << >>
    ELSE (IF Head(roles).num_stations > 0 THEN StationsOf(Head(roles)) ELSE << >>)
         \o GetStations(Tail(roles))

\* 219-220: a role keeps its 'stations' field unless it was popped.
KeepsStationsField(role) == ~(role.num_stations > 0)

\* The roles frame has a 'stations' column when some role kept the field.
HasStationsColumn(roles) ==
    \E i \in 1..Len(roles) : KeepsStationsField(roles[i])

RoleRows(roles) == [i \in 1..Len(roles) |-> [id |-> roles[i].id, v |-> 1]]

\* sync_role_data, 228-241.  roles.drop(columns=['stations']) raises
\* KeyError when the frame has no such column.
SyncRoleData ==
    /\ SyncStart("roles")
    /\ \E fetched \in RolesFetched :
          LET stations == GetStations(fetched)
              n == Len(fetched) + Len(stations)
          IN  /\ pre' = db
              /\ requests' = <<Request("list_roles", RoleKwargs(dates), fetched)>>
              /\ IF Len(fetched) > 0 /\ ~HasStationsColumn(fetched)
                 THEN /\ sync' = [fn |-> "sync_role_data", rows |-> n,
                                  ret |-> 0, status |-> "KeyError"]
                      /\ ops' = << >>
                      /\ UNCHANGED db
                 ELSE LET r == WriteIfAny(db, Dest("roles"),
                                          SetIndex(RoleRows(fetched)))
                          st == WriteIfAny(r.db, Dest("stations"),
                                           SetIndex(stations))
                      IN  /\ db' = st.db
                          /\ ops' = r.ops \o st.ops
                          /\ sync' = [fn |-> "sync_role_data", rows |-> n,
                                      ret |-> r.ret + st.ret, status |-> "ok"]
    /\ UNCHANGED <<callVars, entity, receiptVars, dateVars, concVars, mainVars>>

(***************************************************************************)
(* Wages, sync.py:263-282: one fetch and one upsert per user.              *)
(***************************************************************************)
\* get_user_wage_data: the wage records of one user
WagesOfUser(u) == {<< >>} \cup {<<[id |-> u, v |-> w]>> : w \in Vals}

SyncWageData ==
    /\ SyncStart("wages")
    /\ \E users \in Fetched, status \in Statuses :
       \E wages \in [Ids -> UNION {WagesOfUser(u) : u \in Ids}] :
          /\ \A u \in Ids : wages[u] \in WagesOfUser(u)
          /\ \A u \in Ids : u \notin FirstKeys(users) => wages[u] = << >>
          /\ LET frames == [i \in 1..Len(users) |-> SetIndex(wages[users[i].id])]
                 w == WriteEach(db, Dest("wages"), frames)
             IN  /\ pre' = db
                 /\ requests' =
                        <<Request("list_users", UserKwargs(dates, status), users)>>
                        \o [i \in 1..Len(users) |->
                               Request("list_user_wages",
                                       [user_id |-> users[i].id],
                                       wages[users[i].id])]
                 /\ db' = w.db
                 /\ ops' = w.ops
                 /\ sync' = Ran("sync_wage_data", SumLen(frames), w)
    /\ UNCHANGED <<callVars, entity, receiptVars, dateVars, concVars, mainVars>>

(***************************************************************************)
(* Daily sales and labor, sync.py:390-419: one fetch and one upsert per    *)
(* location; the first index column is "{location_id}-{date}".             *)
(***************************************************************************)
\* get_location_data(company_id): the locations of the company, 310, 403
LocationIds == {1, 2}

LocationLists == {<< >>, <<1>>, <<1, 2>>, <<2, 1>>}

\* 414-415: index_col, a string unique per location and date
IndexCol(loc, date) == (loc - 1) * MaxDates + date

DailyRows(loc, n) == [d \in 1..n |-> [id |-> IndexCol(loc, d), v |-> loc]]

SyncDailySalesAndLaborData ==
    /\ SyncStart("daily_sales_and_labor")
    /\ \E locs \in LocationLists :
       \E days \in [LocationIds -> 0..MaxDates] :
          /\ \A l \in LocationIds : l \notin Range(locs) => days[l] = 0
          /\ LET frames == [i \in 1..Len(locs) |->
                               SetMultiIndex(DailyRows(locs[i], days[locs[i]]))]
                 w == WriteEach(db, Dest("daily_sales_and_labor"), frames)
             IN  /\ pre' = db
                 /\ requests' =
                        <<Request("list_locations", LocationKwargs(<< >>), locs)>>
                        \o [i \in 1..Len(locs) |->
                               Request("get_daily_sales_and_labor",
                                       DailyKwargs(dates, locs[i]),
                                       frames[i].rows)]
                 /\ db' = w.db
                 /\ ops' = w.ops
                 /\ sync' = Ran("sync_daily_sales_and_labor_data", SumLen(frames), w)
    /\ UNCHANGED <<callVars, entity, receiptVars, dateVars, concVars, mainVars>>

(***************************************************************************)
(* Receipts, sync.py:285-327: per location a generator of receipts is      *)
(* drained into a buffer that is written whenever it holds chunk_size      *)
(* records and once more when the generator is exhausted.                  *)
(***************************************************************************)
DefaultChunkSize == 1000

ChunkSizes == (1..MaxChunk) \cup {DefaultChunkSize}

\* list_receipts: the receipts of one location, in API page order
ReceiptStream(loc, n) ==
    [i \in 1..n |-> [id |-> (loc - 1) * MaxStream + i, v |-> loc]]

\* _sync_receipt_chunk(chunk), 297-305
SyncReceiptChunk(s, rows) == WriteIfAny(s, Dest("receipts"), SetIndex(rows))

Flushed(loc, rows, w, before) ==
    [loc |-> loc, rows |-> rows, ret |-> w.ret, ops |-> w.ops,
     changed |-> (w.db # before)]

\* 324: if len(chunk) >= chunk_size
M_ChunkFullStrict(buf, size) == Len(buf) > size

ChunkFull(buf, size) == Len(buf) >= size

\* 326: del chunk[:]
M_KeepBuffer(buf) == buf

Cleared(buf) == << >>

\* 308-311: the call, the unfiltered location list and written = 0
SyncReceiptDataCall ==
    /\ SyncStart("receipts")
    /\ \E locs \in LocationLists, size \in ChunkSizes :
       \E n \in [LocationIds -> 0..MaxStream] :
          /\ \A l \in LocationIds : l \notin Range(locs) => n[l] = 0
          /\ locations' = locs
          /\ requests' = <<Request("list_locations", LocationKwargs(<< >>), locs)>>
          /\ chunk_size' = size
          /\ api' = [l \in LocationIds |-> ReceiptStream(l, n[l])]
    /\ rpc' = "for"
    /\ written' = 0
    /\ flushes' = << >>
    /\ location' = 0
    /\ data' = << >>
    /\ chunk' = << >>
    /\ pre' = db
    /\ ops' = << >>
    /\ sync' = [fn |-> "sync_receipt_data", rows |-> 0, ret |-> 0,
                status |-> "running"]
    /\ UNCHANGED <<db, callVars, entity, dateVars, concVars, mainVars>>

\* 312-316: the next location, a fresh buffer and its generator
ForLocation ==
    /\ rpc = "for"
    /\ locations # << >>
    /\ location' = Head(locations)
    /\ locations' = Tail(locations)
    /\ chunk' = << >>
    /\ data' = api[Head(locations)]
    /\ rpc' = "while"
    /\ requests' = Append(requests,
                          Request("list_receipts",
                                  ReceiptKwargs(dates, Head(locations)),
                                  api[Head(locations)]))
    /\ UNCHANGED <<upsertVars, entity, sync, api, chunk_size, written, flushes,
                   dateVars, concVars, mainVars>>

\* 319, 323-326: next(data) yields; the buffer is written and cleared when full
NextReceipt ==
    /\ rpc = "while"
    /\ data # << >>
    /\ data' = Tail(data)
    /\ LET filled == Append(chunk, Head(data))
       IN  IF ChunkFull(filled, chunk_size)
           THEN LET w == SyncReceiptChunk(db, filled)
                IN  /\ db' = w.db
                    /\ ops' = ops \o w.ops
                    /\ written' = written + w.ret
                    /\ flushes' = Append(flushes, Flushed(location, filled, w, db))
                    /\ sync' = Ran("_sync_receipt_chunk", Len(filled), w)
                    /\ chunk' = Cleared(filled)
           ELSE /\ chunk' = filled
                /\ UNCHANGED <<db, ops, written, flushes, sync>>
    /\ UNCHANGED <<callVars, pre, entity, requests, rpc, api, chunk_size, locations,
                   location, dateVars, concVars, mainVars>>

\* 320-322: StopIteration; what the buffer holds is written, then break
StopIteration ==
    /\ rpc = "while"
    /\ data = << >>
    /\ LET w == SyncReceiptChunk(db, chunk)
       IN  /\ db' = w.db
           /\ ops' = ops \o w.ops
           /\ written' = written + w.ret
           /\ flushes' = Append(flushes, Flushed(location, chunk, w, db))
           /\ sync' = Ran("_sync_receipt_chunk", Len(chunk), w)
    /\ rpc' = "for"
    /\ UNCHANGED <<callVars, pre, entity, requests, api, chunk_size, locations,
                   location, data, chunk, dateVars, concVars, mainVars>>

\* 327: return written
ReceiptReturn ==
    /\ rpc = "for"
    /\ locations = << >>
    /\ rpc' = "done"
    /\ sync' = [fn |-> "sync_receipt_data",
                rows |-> SumLen([l \in LocationIds |-> [rows |-> api[l]]]),
                ret |-> written, status |-> "ok"]
    /\ UNCHANGED <<upsertVars, entity, requests, api, chunk_size, locations,
                   location, data, chunk, written, flushes, dateVars, concVars, mainVars>>

\* The destination tables of an entity's sync function.
EntityTables(e) ==
    CASE e = "roles" -> {Dest("roles"), Dest("stations")}
      [] e = "punches" -> {Dest("time_punches")}
      [] OTHER -> {Dest(e)}

\* The sink an earlier run of the same command has left: the tables of the
\* entity hold one row.
PriorSink(e) ==
    [n \in SinkNames |->
        IF n \in EntityTables(e)
        THEN [exists |-> TRUE, rows |-> <<[id |-> 1, v |-> 1]>>]
        ELSE Absent]

\* The windows the sync functions are run with: a cursor and a range.
SyncOptions ==
    {[modified_since |-> <<2023, 1, 1, 0, 0, 0>>, start_date |-> None,
      end_date |-> None],
     [modified_since |-> None, start_date |-> <<2023, 12, 31>>,
      end_date |-> <<2024, 1, 1>>]}

SyncInit ==
    /\ entity \in Entities
    /\ db \in {EmptySink, PriorSink(entity)}
    /\ conn = db
    /\ pre = db
    /\ pc = "idle"
    /\ table = DefaultTable
    /\ data_frame = NoFrame
    /\ retval = NoReturn
    /\ ops = << >>
    /\ repeat = FALSE
    /\ latest = NoneStored
    /\ sync = NoSync
    /\ requests = << >>
    /\ ReceiptIdle
    /\ args \in SyncOptions
    /\ clock = <<2024, 1, 1>>
    /\ utcoffset = 0
    /\ dates = parse_dates(args, clock, utcoffset)
    /\ dpc = "done"
    /\ ConcIdle
    /\ MainIdle

SyncNext ==
    \/ SyncCompanyData
    \/ SyncLocationData
    \/ SyncDeparmentData
    \/ SyncRoleData
    \/ SyncUserData
    \/ SyncWageData
    \/ SyncShiftData
    \/ SyncPunchData
    \/ SyncDailySalesAndLaborData
    \/ SyncReceiptDataCall
    \/ ForLocation
    \/ NextReceipt
    \/ StopIteration
    \/ ReceiptReturn

SyncSpec == SyncInit /\ [][SyncNext]_vars

(***************************************************************************)
(* Two db_upsert invocations on one destination table, each on its own     *)
(* connection (sync.py:143), against a sink that shows every statement to  *)
(* the other connection as soon as it is executed: the setting of the      *)
(* comment at sync.py:145-147.  The sink is db; ops logs <<caller, step>>. *)
(***************************************************************************)
Other(p) == CHOOSE q \in Procs : q # p

\* What a caller upserts: a non-empty frame indexed by id whose rows carry
\* the caller's number as their value.
CallerFrames(p) ==
    {f \in DataFrames :
        /\ f.keys = <<"id">>
        /\ Len(f.rows) > 0
        /\ \A i \in 1..Len(f.rows) : f.rows[i].v = p}

\* The sinks the two callers meet: no destination table yet, or the one an
\* earlier run has left.
ConcSinks == {EmptySink, PriorSink("receipts")}

Step(p, to, ret) == [calls EXCEPT ![p].pc = to, ![p].retval = ret]

ConcFrame == <<conn, pc, table, data_frame, retval, pre, repeat, latest,
               syncVars, receiptVars, dateVars, mainVars>>

\* 126: has_table(table)
CHasTable(p) ==
    /\ calls[p].pc = "idle"
    /\ calls' = Step(p, IF HasTable(db, table) THEN "tmp" ELSE "create", NoReturn)
    /\ ops' = Append(ops, <<p, "has_table">>)
    /\ UNCHANGED <<db, ConcFrame>>

\* 127-128: data_frame.to_sql(table, conn, if_exists='replace')
CCreate(p) ==
    /\ calls[p].pc = "create"
    /\ db' = ToSqlReplace(db, table, calls[p].frame)
    /\ calls' = Step(p, "done", Ok(Len(calls[p].frame.rows)))
    /\ ops' = Append(ops, <<p, "create">>)
    /\ UNCHANGED ConcFrame

\* 148: data_frame.to_sql(tmp_table, conn, if_exists='replace')
CWriteTmp(p) ==
    /\ calls[p].pc = "tmp"
    /\ db' = ToSqlReplace(db, TmpTable(table), calls[p].frame)
    /\ calls' = Step(p, "delete", NoReturn)
    /\ ops' = Append(ops, <<p, "tmp">>)
    /\ UNCHANGED ConcFrame

\* The rows of the destination a DELETE takes away.
Deleted(s, t, tmp) ==
    LET gone == FirstKeys(s[tmp].rows)
        Hit(r) == r.id \in gone
    IN  SelectSeq(s[t].rows, Hit)

\* 149: conn.execute(query)
CDelete(p) ==
    /\ calls[p].pc = "delete"
    /\ HasTable(db, TmpTable(table))
    /\ db' = DeleteQuery(db, table, TmpTable(table))
    /\ calls' = [calls EXCEPT ![p].pc = "drop",
                              ![p].deleted = Deleted(db, table, TmpTable(table))]
    /\ ops' = Append(ops, <<p, "delete">>)
    /\ UNCHANGED ConcFrame

\* 150: conn.execute(DROP TABLE tmp_table)
CDrop(p) ==
    /\ calls[p].pc = "drop"
    /\ HasTable(db, TmpTable(table))
    /\ db' = DropTable(db, TmpTable(table))
    /\ calls' = Step(p, "append", NoReturn)
    /\ ops' = Append(ops, <<p, "drop">>)
    /\ UNCHANGED ConcFrame

\* 151: return data_frame.to_sql(table, conn, if_exists='append')
CAppend(p) ==
    /\ calls[p].pc = "append"
    /\ db' = ToSqlAppend(db, table, calls[p].frame)
    /\ calls' = Step(p, "done", Ok(Len(calls[p].frame.rows)))
    /\ ops' = Append(ops, <<p, "append">>)
    /\ UNCHANGED ConcFrame

\* 149-150 when the temp table is not there: the statement raises and the
\* transaction is rolled back.  Whether the rows this call has deleted come
\* back depends on the sink (undone is that choice).
CFail(p) ==
    /\ calls[p].pc \in {"delete", "drop"}
    /\ ~HasTable(db, TmpTable(table))
    /\ \E undone \in BOOLEAN :
           db' = IF undone
                 THEN [db EXCEPT ![table].rows = @ \o calls[p].deleted]
                 ELSE db
    /\ calls' = Step(p, "done", Error(calls[p].pc))
    /\ ops' = Append(ops, <<p, "fail">>)
    /\ UNCHANGED ConcFrame

ConcInit ==
    /\ db \in ConcSinks
    /\ conn = db
    /\ pre = db
    /\ pc = "idle"
    /\ table = DefaultTable
    /\ data_frame = NoFrame
    /\ retval = NoReturn
    /\ ops = << >>
    /\ repeat = FALSE
    /\ latest = NoneStored
    /\ SyncIdle /\ ReceiptIdle /\ DatesIdle /\ MainIdle
    /\ \E f \in [Procs -> DataFrames] :
           /\ \A p \in Procs : f[p] \in CallerFrames(p)
           /\ calls = [p \in Procs |-> [NoCall EXCEPT !.frame = f[p]]]

ConcNext ==
    \/ \E p \in Procs : CHasTable(p)
    \/ \E p \in Procs : CCreate(p)
    \/ \E p \in Procs : CWriteTmp(p)
    \/ \E p \in Procs : CDelete(p)
    \/ \E p \in Procs : CDrop(p)
    \/ \E p \in Procs : CAppend(p)
    \/ \E p \in Procs : CFail(p)

ConcSpec == ConcInit /\ [][ConcNext]_vars

(***************************************************************************)
(* main, sync.py:422-474: parse the dates, fetch the companies, sync the   *)
(* companies table when asked to, then for each company run the selected   *)
(* sync functions in source order.  No exception is caught.  What the API  *)
(* returns for company c is one record per entity, [id |-> c, v |-> 1].    *)
(***************************************************************************)
MaxSelected == 2

\* The commands of the usage text (sync.py:5-14), and the two spellings of
\* the departments key: the one a caller would pass and the one main reads.
Commands ==
    {"punches", "shifts", "users", "wages", "roles", "receipts", "locations",
     "companies", "daily_sales_and_labor", "all", "departments", "deparments"}

Flags == {"--inactive-users", "--unapproved"}

Selections ==
    {cmds \cup flags : cmds \in {c \in SUBSET Commands :
                                    Cardinality(c) \in 1..MaxSelected},
                       flags \in SUBSET Flags}

CompanyLists == {<< >>, <<1>>, <<1, 2>>}

\* The statements of the for loop of main, in source order (435-473).
M_ShiftsBeforeReceipts ==
    <<"locations", "departments", "roles", "users", "users_inactive", "wages",
      "wages_inactive", "shifts", "receipts", "punches", "punches_unapproved",
      "daily_sales_and_labor">>

Stages ==
    <<"locations", "departments", "roles", "users", "users_inactive", "wages",
      "wages_inactive", "receipts", "shifts", "punches", "punches_unapproved",
      "daily_sales_and_labor">>

StageIndex(st) == CHOOSE k \in 1..Len(Stages) : Stages[k] = st

LastStage(st) == StageIndex(st) = Len(Stages)

NextStage(st) == IF LastStage(st) THEN Stages[1] ELSE Stages[StageIndex(st) + 1]

\* The args key each statement tests, the flag its second pass needs, the
\* function it calls with its extra argument, and the tables that function
\* upserts, in order.
StageInfo(st) ==
    CASE st = "locations" ->
           [key |-> "locations", flag |-> "", fn |-> "sync_location_data",
            arg |-> "", tables |-> <<Dest("locations")>>]
      [] st = "departments" ->
           [key |-> "deparments", flag |-> "", fn |-> "sync_deparment_data",
            arg |-> "", tables |-> <<Dest("departments")>>]
      [] st = "roles" ->
           [key |-> "roles", flag |-> "", fn |-> "sync_role_data",
            arg |-> "", tables |-> <<Dest("roles"), Dest("stations")>>]
      [] st = "users" ->
           [key |-> "users", flag |-> "", fn |-> "sync_user_data",
            arg |-> "active", tables |-> <<Dest("users")>>]
      [] st = "users_inactive" ->
           [key |-> "users", flag |-> "--inactive-users", fn |-> "sync_user_data",
            arg |-> "inactive", tables |-> <<Dest("users")>>]
      [] st = "wages" ->
           [key |-> "wages", flag |-> "", fn |-> "sync_wage_data",
            arg |-> "active", tables |-> <<Dest("wages")>>]
      [] st = "wages_inactive" ->
           [key |-> "wages", flag |-> "--inactive-users", fn |-> "sync_wage_data",
            arg |-> "inactive", tables |-> <<Dest("wages")>>]
      [] st = "receipts" ->
           [key |-> "receipts", flag |-> "", fn |-> "sync_receipt_data",
            arg |-> "", tables |-> <<Dest("receipts")>>]
      [] st = "shifts" ->
           [key |-> "shifts", flag |-> "", fn |-> "sync_shift_data",
            arg |-> "", tables |-> <<Dest("shifts")>>]
      [] st = "punches" ->
           [key |-> "punches", flag |-> "", fn |-> "sync_punch_data",
            arg |-> "approved=True", tables |-> <<Dest("time_punches")>>]
      [] st = "punches_unapproved" ->
           [key |-> "punches", flag |-> "--unapproved", fn |-> "sync_punch_data",
            arg |-> "approved=False", tables |-> <<Dest("time_punches")>>]
      [] st = "daily_sales_and_labor" ->
           [key |-> "daily_sales_and_labor", flag |-> "",
            fn |-> "sync_daily_sales_and_labor_data",
            arg |-> "", tables |-> <<Dest("daily_sales_and_labor")>>]

\* if args.get('all') or args.get(key): ... [if args.get(flag): ...]
M_SelectsWithoutFlag(st) ==
    "all" \in selected \/ StageInfo(st).key \in selected

Selects(st) ==
    /\ "all" \in selected \/ StageInfo(st).key \in selected
    /\ StageInfo(st).flag = "" \/ StageInfo(st).flag \in selected

CompanyRow(c) == [id |-> c, v |-> 1]

\* The upserts of one sync function for company c, one per table.
RECURSIVE ApplyWrites(_, _, _)
ApplyWrites(s, tables, c) ==
    IF tables = << >> THEN s
    ELSE ApplyWrites(WriteIfAny(s, Head(tables), SetIndex(<<CompanyRow(c)>>)).db,
                     Tail(tables), c)

Returned == [status |-> "returned", error |-> ""]

Raised(error) == [status |-> "raised", error |-> error]

Event(st, fn, c, arg, result) ==
    [stage |-> st, fn |-> fn, company_id |-> c, arg |-> arg, result |-> result]

\* An exception leaves main: nothing in main catches it.
M_CarryOn(next) == next

Uncaught(next) == "done"

MainFrame == <<conn, pc, table, data_frame, retval, pre, ops, repeat, latest,
               syncVars, receiptVars, concVars, args, clock, utcoffset>>

\* 426-431: parse_dates has run; get_one_company_data or
\* get_all_company_data.  A ValueError of parse_dates and an error of the
\* API both leave main.
GetCompanies ==
    /\ mpc = "parse_dates"
    /\ dpc = "done"
    /\ IF "error" \in DOMAIN dates
       THEN /\ outcome' = Raised(dates.error)
            /\ mpc' = Uncaught("companies")
            /\ UNCHANGED companies
       ELSE \/ /\ \E ids \in (IF company_id # 0 THEN {<<company_id>>}
                                               ELSE CompanyLists) :
                      companies' = [ids |-> ids, indexed |-> FALSE]
               /\ mpc' = "companies"
               /\ UNCHANGED outcome
            \/ /\ outcome' = Raised("APIError")
               /\ mpc' = Uncaught("companies")
               /\ UNCHANGED companies
    /\ UNCHANGED <<MainFrame, db, dates, dpc, selected, company_id, ci, trace>>

\* 432-433 with sync_company_data, 164-170: set_index('id', inplace=True)
\* turns the id column of main's own companies frame into its index.
SyncCompanies ==
    /\ mpc = "companies"
    /\ IF "all" \in selected \/ "companies" \in selected
       THEN \/ /\ companies' = [companies EXCEPT
                                   !.indexed = Len(companies.ids) > 0]
               /\ db' = WriteIfAny(db, Dest("companies"),
                                   SetIndex([k \in 1..Len(companies.ids) |->
                                                CompanyRow(companies.ids[k])])).db
               /\ trace' = Append(trace, Event("companies", "sync_company_data",
                                               0, "", "returned"))
               /\ mpc' = Stages[1]
               /\ UNCHANGED outcome
            \/ /\ trace' = Append(trace, Event("companies", "sync_company_data",
                                               0, "", "raised"))
               /\ outcome' = Raised("SinkError")
               /\ mpc' = Uncaught(Stages[1])
               /\ UNCHANGED <<db, companies>>
       ELSE /\ mpc' = Stages[1]
            /\ UNCHANGED <<db, companies, trace, outcome>>
    /\ ci' = 1
    /\ UNCHANGED <<MainFrame, dates, dpc, selected, company_id>>

\* One "if args.get(...)" statement of the loop body for the company at ci.
\* Reading company.id fails on a frame whose id column has become the index.
\* The function called may return, raise before its first upsert, or raise
\* after its first upsert has been committed.
RunStage(st) ==
    /\ ci \in 1..Len(companies.ids)
    /\ LET info == StageInfo(st)
           c == companies.ids[ci]
           ev(result) == Event(st, info.fn, c, info.arg, result)
       IN  IF ~Selects(st)
           THEN /\ mpc' = NextStage(st)
                /\ ci' = IF LastStage(st) THEN ci + 1 ELSE ci
                /\ UNCHANGED <<db, trace, outcome>>
           ELSE IF companies.indexed
           THEN /\ outcome' = Raised("AttributeError")
                /\ mpc' = Uncaught(NextStage(st))
                /\ UNCHANGED <<db, trace, ci>>
           ELSE \/ /\ db' = ApplyWrites(db, info.tables, c)
                   /\ trace' = Append(trace, ev("returned"))
                   /\ mpc' = NextStage(st)
                   /\ ci' = IF LastStage(st) THEN ci + 1 ELSE ci
                   /\ UNCHANGED outcome
                \/ /\ \E late \in BOOLEAN :
                          db' = IF late
                                THEN ApplyWrites(db, <<Head(info.tables)>>, c)
                                ELSE db
                   /\ trace' = Append(trace, ev("raised"))
                   /\ outcome' = Raised("Error")
                   /\ mpc' = Uncaught(NextStage(st))
                   /\ UNCHANGED ci
    /\ UNCHANGED <<MainFrame, dates, dpc, selected, company_id, companies>>

\* 435-437
MainLocations == mpc = "locations" /\ RunStage("locations")

\* 438-440
MainDepartments == mpc = "departments" /\ RunStage("departments")

\* 441-443
MainRoles == mpc = "roles" /\ RunStage("roles")

\* 444-446
MainUsers == mpc = "users" /\ RunStage("users")

\* 447-449
MainInactiveUsers == mpc = "users_inactive" /\ RunStage("users_inactive")

\* 450-452
MainWages == mpc = "wages" /\ RunStage("wages")

\* 453-455
MainInactiveWages == mpc = "wages_inactive" /\ RunStage("wages_inactive")

\* 456-458
MainReceipts == mpc = "receipts" /\ RunStage("receipts")

\* 459-461
MainShifts == mpc = "shifts" /\ RunStage("shifts")

\* 462-465
MainPunches == mpc = "punches" /\ RunStage("punches")

\* 466-469
MainUnapprovedPunches == mpc = "punches_unapproved" /\ RunStage("punches_unapproved")

\* 470-473
MainDaily == mpc = "daily_sales_and_labor" /\ RunStage("daily_sales_and_labor")

\* 474: return 0
MainReturn ==
    /\ mpc = Stages[1]
    /\ ci > Len(companies.ids)
    /\ outcome' = Returned
    /\ mpc' = "done"
    /\ UNCHANGED <<MainFrame, db, dates, dpc, selected, company_id, companies, ci,
                   trace>>

\* The windows main is run with: a cursor, a range and a start date that
\* does not parse.
MainOptions ==
    SyncOptions \cup
        {[modified_since |-> None, start_date |-> <<2023, 2, 29>>,
          end_date |-> None]}

MainInit ==
    /\ UpsertInit /\ SyncIdle /\ ReceiptIdle /\ ConcIdle
    /\ args \in MainOptions
    /\ clock = <<2024, 1, 1>>
    /\ utcoffset = 0
    /\ dates = None
    /\ dpc = "start"
    /\ selected \in Selections
    /\ company_id \in {0, 1}
    /\ companies = NoCompanies
    /\ mpc = "parse_dates"
    /\ ci = 0
    /\ trace = << >>
    /\ outcome = Running

MainNext ==
    \/ ParseDates
    \/ GetCompanies
    \/ SyncCompanies
    \/ MainLocations
    \/ MainDepartments
    \/ MainRoles
    \/ MainUsers
    \/ MainInactiveUsers
    \/ MainWages
    \/ MainInactiveWages
    \/ MainReceipts
    \/ MainShifts
    \/ MainPunches
    \/ MainUnapprovedPunches
    \/ MainDaily
    \/ MainReturn

MainSpec == MainInit /\ [][MainNext]_vars

(***************************************************************************)
(* Properties of db_upsert.                                                *)
(***************************************************************************)
RowsWithKey(rows, k) ==
    LET Has(r) == r.id = k IN SelectSeq(rows, Has)

Holds(rows, r) == \E i \in 1..Len(rows) : rows[i] = r

Succeeded == pc = "done" /\ retval.status = "ok"

\* C1: upserting the same keyed frame twice in succession leaves the
\* destination with the row count and the rows it had after the first upsert,
\* whether the first call found the table absent or present.
C1_UpsertIdempotent ==
    (Succeeded /\ repeat) =>
        /\ db[table].rows = pre[table].rows
        /\ Len(db[table].rows) = Len(pre[table].rows)
        /\ db[table].exists

\* C1 witness: a repeated upsert of a one-row frame has returned through the
\* delete-and-append path on a table that also holds a row of another key.
C1_Witness ==
    /\ Succeeded /\ repeat
    /\ Len(data_frame.rows) = 1
    /\ Len(db[table].rows) = 2
    /\ "delete" \in {ops[i] : i \in 1..Len(ops)}

\* C2: when the destination held a row with key K and v = 1 and the frame
\* holds key K with v = 2, the destination afterwards holds exactly one row
\* with key K, and it has v = 2.
C2_UpsertReplaces ==
    \A k \in Ids :
        (/\ Succeeded
         /\ Holds(pre[table].rows, [id |-> k, v |-> 1])
         /\ Holds(data_frame.rows, [id |-> k, v |-> 2]))
        => RowsWithKey(db[table].rows, k) = << [id |-> k, v |-> 2] >>

\* C2 witness: such an upsert has returned, on a table holding another key too.
C2_Witness ==
    /\ Succeeded
    /\ Holds(pre[table].rows, [id |-> 1, v |-> 1])
    /\ Holds(data_frame.rows, [id |-> 1, v |-> 2])
    /\ Len(pre[table].rows) = 2

\* C3: a failure at any step of the upsert transaction leaves the destination
\* with exactly the rows it held before the call, and the committed
\* destination is at every moment either the one before the call or the
\* complete result of the call, never one with rows deleted and not appended.
C3_UpsertAtomic ==
    /\ (pc = "done" /\ retval.status = "error") => db[table] = pre[table]
    /\ \/ db[table] = pre[table]
       \/ Succeeded /\ db[table] = DbUpsert(pre, table, data_frame)[table]

\* C3 witness: the append failed after the delete had removed a row of the
\* destination and the temp table had been dropped.
C3_Witness ==
    /\ pc = "done" /\ retval.status = "error" /\ retval.at = "append"
    /\ pre[table].rows # << >>
    /\ FirstKeys(pre[table].rows) \cap FirstKeys(data_frame.rows) # {}

(***************************************************************************)
(* Properties of the sync functions and of the chunked receipt writer.     *)
(***************************************************************************)
FlushesOf(l) ==
    LET At(f) == f.loc = l IN SelectSeq(flushes, At)

RECURSIVE ConcatRows(_)
ConcatRows(fs) ==
    IF fs = << >> THEN << >> ELSE Head(fs).rows \o ConcatRows(Tail(fs))

RECURSIVE SumRet(_)
SumRet(fs) == IF fs = << >> THEN 0 ELSE Head(fs).ret + SumRet(Tail(fs))

NonEmpty(fs) ==
    LET Some(f) == f.rows # << >> IN SelectSeq(fs, Some)

Ceil(n, c) == (n + c - 1) \div c

\* The stream of the location of the current iteration has been exhausted.
StreamDone == rpc \in {"for", "done"} /\ location # 0

\* C5: a sync step with no rows to write issues no sink operation, leaves the
\* sink as it was and reports 0: for the sync functions as a whole and for
\* every hand-off of an empty buffer to _sync_receipt_chunk.
C5_EmptyBatchNoOp ==
    /\ (sync.status = "ok" /\ sync.rows = 0 /\ sync.fn # "_sync_receipt_chunk")
        => (ops = << >> /\ db = pre /\ sync.ret = 0)
    /\ \A i \in 1..Len(flushes) :
          flushes[i].rows = << >> =>
              (flushes[i].ops = << >> /\ ~flushes[i].changed /\ flushes[i].ret = 0)

\* C5 witness: the receipt writer has handed an empty buffer to
\* _sync_receipt_chunk after a full one, the receipts table being present.
C5_Witness ==
    /\ rpc = "done"
    /\ db[Dest("receipts")].exists
    /\ \E i \in 1..Len(flushes) : i > 1 /\ flushes[i].rows = << >>

\* C6 as claimed: a stream of N receipts is handed to _sync_receipt_chunk
\* exactly ceil(N / chunk_size) times, the row counts adding up to N.
C6_Original ==
    StreamDone =>
        /\ Len(FlushesOf(location)) = Ceil(Len(api[location]), chunk_size)
        /\ SumRet(FlushesOf(location)) = Len(api[location])

\* C6 as amended: the buffer is handed to _sync_receipt_chunk
\* floor(N / chunk_size) + 1 times, once per full chunk and once at
\* exhaustion; exactly ceil(N / chunk_size) of the hand-offs are not empty,
\* they are the ones that reach the sink, and the row counts add up to N.
C6_FlushCount ==
    StreamDone =>
        LET fs == FlushesOf(location)
            n == Len(api[location])
        IN  /\ Len(fs) = (n \div chunk_size) + 1
            /\ Len(NonEmpty(fs)) = Ceil(n, chunk_size)
            /\ \A i \in 1..Len(fs) : (fs[i].ops # << >>) <=> (fs[i].rows # << >>)
            /\ SumRet(fs) = n
            /\ Len(ConcatRows(fs)) = n

\* C6 witness: a stream of four receipts written with chunk_size 2: two full
\* hand-offs and an empty one.
C6_Witness ==
    /\ StreamDone
    /\ Len(api[location]) = 4
    /\ chunk_size = 2
    /\ Len(FlushesOf(location)) = 3

AllFlushes(P(_)) == \A i \in 1..Len(flushes) : P(flushes[i])

WithinChunkSize(f) == Len(f.rows) <= chunk_size

OneLocation(f) == \A j \in 1..Len(f.rows) : f.rows[j].v = f.loc

\* Every record of an exhausted stream has been handed over exactly once, in
\* stream order; no hand-off exceeds chunk_size or mixes locations.
ExactlyOnce ==
    /\ StreamDone => ConcatRows(FlushesOf(location)) = api[location]
    /\ AllFlushes(WithinChunkSize)
    /\ AllFlushes(OneLocation)

\* C7 as claimed: exactly once, in order, at most chunk_size per hand-off, and
\* the buffer is empty after each hand-off.
C7_Original ==
    [][ExactlyOnce' /\ (flushes' # flushes => chunk' = << >>)]_vars

\* C7 as amended: exactly once, in order, at most chunk_size per hand-off; the
\* buffer is empty after each hand-off of a full chunk and at the start of
\* each location, so while a stream is read the hand-offs of its location,
\* the buffer and the rest of the stream make up the stream.
C7_ExactlyOnce ==
    /\ ExactlyOnce
    /\ rpc = "while" =>
          /\ ConcatRows(FlushesOf(location)) \o chunk \o data = api[location]
          /\ Len(chunk) < chunk_size

\* C7 witness: two locations with receipts have been written, the first with
\* a final partial chunk.
C7_Witness ==
    /\ rpc = "done"
    /\ Len(api[1]) = 3 /\ Len(api[2]) = 2
    /\ chunk_size = 2
    /\ Len(flushes) = 4


Created == pc = "done" /\ ~HasTable(pre, table)

CreateOps == <<"has_table", "begin", "to_sql_replace", "commit">>

Protocol ==
    <<"has_table", "begin", "tmp_to_sql_replace", "delete", "drop_tmp",
      "to_sql_append", "commit">>

IsPrefix(a, b) == Len(a) <= Len(b) /\ SubSeq(b, 1, Len(a)) = a

\* The position of each step of the transaction in the protocol.
StepsDone ==
    CASE pc = "tmp" -> 2
      [] pc = "delete" -> 3
      [] pc = "drop" -> 4
      [] pc = "append" -> 5
      [] pc = "commit" -> 6

RowsKeyedIn(rows, keys) ==
    LET In(r) == r.id \in keys IN SelectSeq(rows, In)

RowsKeyedOutside(rows, keys) ==
    LET Out(r) == r.id \notin keys IN SelectSeq(rows, Out)

\* A row of the destination that agrees with a row of the frame on the first
\* key column and differs from it on the second one.
CollidesOnFirstKey(r, frame) ==
    \E i \in 1..Len(frame.rows) :
        frame.rows[i].id = r.id /\ frame.rows[i].v # r.v

\* C21: the delete step of db_upsert removes a destination row if and only
\* if its first key column equals the first key of some row of the frame;
\* with a composite key the other key columns are not compared, so a row
\* that agrees with a frame row on the first key column only is deleted and,
\* once the call has returned, replaced by that frame row.
C21_FirstKeyOnlyDelete ==
    /\ pc = "drop" =>
          /\ conn[table].rows =
                 RowsKeyedOutside(pre[table].rows, FirstKeys(data_frame.rows))
          /\ \A i \in 1..Len(pre[table].rows) :
                 Holds(conn[table].rows, pre[table].rows[i])
                     <=> pre[table].rows[i].id \notin FirstKeys(data_frame.rows)
    /\ (Succeeded /\ HasTable(pre, table) /\ Len(Keys(data_frame)) > 1) =>
          \A i \in 1..Len(pre[table].rows) :
              CollidesOnFirstKey(pre[table].rows[i], data_frame) =>
                  /\ ~Holds(db[table].rows, pre[table].rows[i])
                  /\ \E j \in 1..Len(data_frame.rows) :
                        /\ data_frame.rows[j].id = pre[table].rows[i].id
                        /\ Holds(db[table].rows, data_frame.rows[j])

\* C21 witness: the delete of a MultiIndex frame has just run on a table that
\* held a row agreeing with the frame on the first key column only, beside a
\* row of another key, which stays.
C21_Witness ==
    /\ pc = "drop"
    /\ Keys(data_frame) = <<"id", "v">>
    /\ Len(pre[table].rows) = 2
    /\ Len(conn[table].rows) = 1
    /\ \E i \in 1..Len(pre[table].rows) :
          CollidesOnFirstKey(pre[table].rows[i], data_frame)

\* C22: when the destination table exists and the frame declares no index
\* name, db_upsert fails with an error before the transaction is opened: no
\* statement is sent to the sink after the has_table test, no temp table is
\* created and the sink, the destination included, is as it was at entry.
C22_NoKeyFails ==
    (pc = "done" /\ HasTable(pre, table) /\ data_frame.keys = << >>) =>
        /\ retval.status = "error"
        /\ retval.at = "assert"
        /\ \A i \in 1..Len(ops) : ops[i] \in {"has_table", "warn"}
        /\ db = pre
        /\ conn = pre
        /\ db[TmpTable(table)] = pre[TmpTable(table)]
        /\ db[table] = pre[table]

\* C22 witness: a frame with rows and no index name was upserted into a
\* destination holding rows, and the call has ended.
C22_Witness ==
    /\ pc = "done"
    /\ data_frame.keys = << >>
    /\ data_frame.rows # << >>
    /\ HasTable(pre, table)
    /\ pre[table].rows # << >>
    /\ retval.status = "error"

\* C24 as claimed: a db_upsert that succeeds on an existing destination
\* leaves the rows whose first key is not in the frame as they were, puts the
\* frame's rows in the place of the rows with the frame's keys, and leaves
\* every other table of the sink unchanged.
C24_Original ==
    (Succeeded /\ HasTable(pre, table)) =>
        /\ RowsKeyedOutside(db[table].rows, FirstKeys(data_frame.rows)) =
               RowsKeyedOutside(pre[table].rows, FirstKeys(data_frame.rows))
        /\ RowsKeyedIn(db[table].rows, FirstKeys(data_frame.rows)) =
               data_frame.rows
        /\ \A n \in SinkNames \ {table} : db[n] = pre[n]

\* C24 as amended: the same for the destination; every table other than the
\* destination and its temp table is unchanged; the temp table is absent
\* afterwards, also when one was there before the call.
C24_UpsertFrame ==
    (Succeeded /\ HasTable(pre, table)) =>
        /\ RowsKeyedOutside(db[table].rows, FirstKeys(data_frame.rows)) =
               RowsKeyedOutside(pre[table].rows, FirstKeys(data_frame.rows))
        /\ RowsKeyedIn(db[table].rows, FirstKeys(data_frame.rows)) =
               data_frame.rows
        /\ Len(db[table].rows) =
               Len(RowsKeyedOutside(pre[table].rows, FirstKeys(data_frame.rows)))
                   + Len(data_frame.rows)
        /\ \A n \in SinkNames \ {table, TmpTable(table)} : db[n] = pre[n]
        /\ ~HasTable(db, TmpTable(table))

\* C24 witness: a one-row frame was upserted into a destination of two rows
\* while a temp table of an earlier, failed call was still there and the
\* shifts table held a row with the frame's key.
C24_Witness ==
    /\ Succeeded
    /\ HasTable(pre, table)
    /\ HasTable(pre, TmpTable(table))
    /\ Len(pre[table].rows) = 2
    /\ Len(data_frame.rows) = 1
    /\ data_frame.rows[1].id = 1
    /\ ~Holds(pre[table].rows, data_frame.rows[1])
    /\ db[NeighbourTable].rows = <<[id |-> 1, v |-> 1]>>

\* C25: from an absent destination, after any sequence of db_upsert calls
\* with frames of pairwise distinct first keys, the destination holds at
\* most one row per first key, and the row of a key is the one of the last
\* frame upserted successfully that held the key; calls that fail count for
\* nothing.
C25_KeyUniqueness ==
    \A k \in Ids :
        /\ Len(RowsWithKey(db[DefaultTable].rows, k)) <= 1
        /\ RowsWithKey(db[DefaultTable].rows, k) = latest[k]
        /\ Len(db[DefaultTable].rows) <= Cardinality(Ids)

\* C25 witness: the last call replaced the row of key 1 alone; the row of
\* key 2 is the one an earlier call stored, and key 1 had another row before.
C25_Witness ==
    /\ Succeeded
    /\ ~repeat
    /\ HasTable(pre, table)
    /\ data_frame.rows = <<[id |-> 1, v |-> 2]>>
    /\ pre[table].rows = <<[id |-> 1, v |-> 1], [id |-> 2, v |-> 2]>>
    /\ db[table].rows = <<[id |-> 2, v |-> 2], [id |-> 1, v |-> 2]>>
    /\ latest[2] = <<[id |-> 2, v |-> 2]>>

EntityOf(fn) ==
    CASE fn = "sync_location_data" -> "locations"
      [] fn = "sync_deparment_data" -> "departments"
      [] fn = "sync_role_data" -> "roles"
      [] fn = "sync_user_data" -> "users"
      [] fn = "sync_wage_data" -> "wages"
      [] fn = "sync_receipt_data" -> "receipts"
      [] fn = "sync_shift_data" -> "shifts"
      [] fn = "sync_punch_data" -> "punches"
      [] fn = "sync_daily_sales_and_labor_data" -> "daily_sales_and_labor"
      [] fn = "sync_company_data" -> "companies"

EntityOrder ==
    <<"locations", "departments", "roles", "users", "wages", "receipts",
      "shifts", "punches", "daily_sales_and_labor">>

Rank(fn) == CHOOSE k \in 1..Len(EntityOrder) : EntityOrder[k] = EntityOf(fn)

\* The position of a company in the companies frame.
PosOf(c) == CHOOSE k \in 1..Len(companies.ids) : companies.ids[k] = c

PerCompany(e) == e.fn # "sync_company_data"

\* C12: the sync functions start in the order locations, departments,
\* roles, users, wages, receipts, shifts, punches, daily sales/labor within
\* one company; none starts before the one before it has returned; all those
\* of one company come before any of the next company; the companies table
\* is synced before all of them.
C12_OrchestratorOrder ==
    /\ \A i \in 1..Len(trace) :
           i < Len(trace) => trace[i].result = "returned"
    /\ \A i, j \in 1..Len(trace) :
           (i < j /\ PerCompany(trace[j])) =>
               \/ ~PerCompany(trace[i])
               \/ PosOf(trace[i].company_id) < PosOf(trace[j].company_id)
               \/ /\ trace[i].company_id = trace[j].company_id
                  /\ Rank(trace[i].fn) <= Rank(trace[j].fn)
                  /\ trace[i] # trace[j]
    /\ \A j \in 1..Len(trace) : ~PerCompany(trace[j]) => j = 1

\* Locations and wages selected, two companies: locations 1, wages 1,
\* locations 2, wages 2, then return 0.
C12_Witness ==
    /\ outcome = Returned
    /\ companies.ids = <<1, 2>>
    /\ selected = {"wages", "locations"}
    /\ trace = <<Event("locations", "sync_location_data", 1, "", "returned"),
                 Event("wages", "sync_wage_data", 1, "active", "returned"),
                 Event("locations", "sync_location_data", 2, "", "returned"),
                 Event("wages", "sync_wage_data", 2, "active", "returned")>>

Finished == mpc = "done"

Called(fn, c) ==
    \E i \in 1..Len(trace) : trace[i].fn = fn /\ trace[i].company_id = c

\* Nothing outside main went wrong: the run returned, or raised the
\* AttributeError of reading company.id.
NoOutsideFailure == outcome \in {Returned, Raised("AttributeError")}

\* C13: a run with 'all' selected and at least one company, in which no
\* fetch and no write fails, syncs the companies table, calls every sync
\* function with every company's id and returns 0.
C13_AllRunsEverything ==
    (Finished /\ "all" \in selected /\ Len(companies.ids) > 0 /\ NoOutsideFailure)
        => /\ outcome = Returned
           /\ Called("sync_company_data", 0)
           /\ \A k \in 1..Len(companies.ids), r \in 1..Len(EntityOrder) :
                  \E i \in 1..Len(trace) :
                      /\ EntityOf(trace[i].fn) = EntityOrder[r]
                      /\ trace[i].company_id = companies.ids[k]

\* 'all' with one company: the companies table is written, then reading
\* company.id for the locations sync raises AttributeError; nothing else runs.
C13_Witness ==
    /\ Finished
    /\ selected = {"all"}
    /\ companies = [ids |-> <<1>>, indexed |-> TRUE]
    /\ trace = <<Event("companies", "sync_company_data", 0, "", "returned")>>
    /\ db[Dest("companies")].rows = <<CompanyRow(1)>>
    /\ ~HasTable(db, Dest("locations"))
    /\ outcome = Raised("AttributeError")

\* C14: in a run without 'all' that returns, the sync function of an
\* entity is called for a company exactly when the entity is named in the
\* selection, for each of the nine per-company entities.
C14_NamedSelection ==
    (Finished /\ outcome = Returned /\ "all" \notin selected
     /\ Len(companies.ids) > 0)
        => \A r \in 1..Len(EntityOrder), k \in 1..Len(companies.ids) :
               (EntityOrder[r] \in selected) <=>
                   (\E i \in 1..Len(trace) :
                        /\ EntityOf(trace[i].fn) = EntityOrder[r]
                        /\ trace[i].company_id = companies.ids[k])

\* departments named, one company: main returns 0 without calling
\* sync_deparment_data.
C14_Witness ==
    /\ Finished
    /\ selected = {"departments"}
    /\ companies.ids = <<1>>
    /\ outcome = Returned
    /\ trace = << >>
    /\ db = EmptySink

\* The rows the sync function of a returned call has upserted are in the sink.
Intact(e) ==
    IF PerCompany(e)
    THEN \A k \in 1..Len(StageInfo(e.stage).tables) :
             Holds(db[StageInfo(e.stage).tables[k]].rows, CompanyRow(e.company_id))
    ELSE \A k \in 1..Len(companies.ids) :
             Holds(db[Dest("companies")].rows, CompanyRow(companies.ids[k]))

\* C15: an exception of a sync function is not caught: the run ends there
\* with a failing outcome; the call that raised is the last one made; the
\* rows of every call that returned before it are in the sink; after the
\* failure neither the sink nor the list of calls changes.
C15_FailurePropagation ==
    /\ [](/\ \A i \in 1..Len(trace) :
                trace[i].result = "raised" =>
                    /\ i = Len(trace)
                    /\ outcome.status = "raised"
                    /\ Finished
          /\ outcome.status = "raised" =>
                 /\ Finished
                 /\ \A i \in 1..Len(trace) :
                        trace[i].result = "returned" => Intact(trace[i]))
    /\ [][outcome.status = "raised" => UNCHANGED <<db, trace, outcome>>]_vars

\* Locations of company 1 synced, then the roles sync raises after its
\* roles upsert: the locations and roles rows stay, no stations, no users,
\* nothing for company 2.
C15_Witness ==
    /\ Finished
    /\ outcome = Raised("Error")
    /\ companies.ids = <<1, 2>>
    /\ selected = {"locations", "roles"}
    /\ trace = <<Event("locations", "sync_location_data", 1, "", "returned"),
                 Event("roles", "sync_role_data", 1, "", "raised")>>
    /\ db[Dest("locations")].rows = <<CompanyRow(1)>>
    /\ db[Dest("roles")].rows = <<CompanyRow(1)>>
    /\ ~HasTable(db, Dest("stations"))

\* The sync functions main can call twice for one company, the argument
\* of each pass and the flag the second pass needs.
TwoPass == {"sync_user_data", "sync_wage_data", "sync_punch_data"}

FirstPass(fn) == IF fn = "sync_punch_data" THEN "approved=True" ELSE "active"

SecondPass(fn) == IF fn = "sync_punch_data" THEN "approved=False" ELSE "inactive"

FlagOf(fn) == IF fn = "sync_punch_data" THEN "--unapproved" ELSE "--inactive-users"

EntitySelected(fn) == "all" \in selected \/ EntityOf(fn) \in selected

\* The arguments of the calls of fn for company c, in the order made.
PassesOf(fn, c) ==
    LET Mine(e) == e.fn = fn /\ e.company_id = c
        es == SelectSeq(trace, Mine)
    IN  [k \in 1..Len(es) |-> es[k].arg]

\* C23: the inactive pass of the user sync and of the wage sync is made
\* only when the entity is selected and --inactive-users is set, the
\* unapproved pass of the punch sync only when punches are selected and
\* --unapproved is set, and each right after the first pass (active,
\* approved) of the same function for the same company has returned; a run
\* that returns has made, for every company and each of the three functions,
\* no pass when the entity is not selected, the first pass alone when its
\* flag is not set, and the first then the second pass when it is.
C23_SecondPasses ==
    /\ \A i \in 1..Len(trace) :
          (trace[i].fn \in TwoPass /\ trace[i].arg = SecondPass(trace[i].fn)) =>
              /\ FlagOf(trace[i].fn) \in selected
              /\ EntitySelected(trace[i].fn)
              /\ i > 1
              /\ trace[i - 1].fn = trace[i].fn
              /\ trace[i - 1].company_id = trace[i].company_id
              /\ trace[i - 1].arg = FirstPass(trace[i].fn)
              /\ trace[i - 1].result = "returned"
    /\ (Finished /\ outcome = Returned) =>
          \A k \in 1..Len(companies.ids), fn \in TwoPass :
              PassesOf(fn, companies.ids[k]) =
                  IF ~EntitySelected(fn) THEN << >>
                  ELSE IF FlagOf(fn) \in selected
                       THEN <<FirstPass(fn), SecondPass(fn)>>
                       ELSE <<FirstPass(fn)>>

\* C23 witness: users and punches with --inactive-users alone, one company:
\* active users, inactive users, approved punches, return 0.
C23_Witness ==
    /\ Finished
    /\ outcome = Returned
    /\ selected = {"users", "punches", "--inactive-users"}
    /\ companies.ids = <<1>>
    /\ trace = <<Event("users", "sync_user_data", 1, "active", "returned"),
                 Event("users_inactive", "sync_user_data", 1, "inactive", "returned"),
                 Event("punches", "sync_punch_data", 1, "approved=True", "returned")>>

(***************************************************************************)
(* Properties of the requests made to the API.                             *)
(***************************************************************************)
RangeFields ==
    {"start[gte]", "start[lte]", "clocked_in[gte]", "clocked_in[lte]",
     "receipt_date[gte]", "receipt_date[lte]"}

DateFields == RangeFields \cup {"modified_since", "start_date", "end_date"}

CursorActive == "modified_since" \in DOMAIN dates

RangeActive == "start" \in DOMAIN dates

\* The range pair of the entities that can be filtered by a range.
RangePair(call) ==
    CASE call = "list_shifts" -> <<"start[gte]", "start[lte]">>
      [] call = "list_punches" -> <<"clocked_in[gte]", "clocked_in[lte]">>
      [] call = "list_receipts" -> <<"receipt_date[gte]", "receipt_date[lte]">>

Ranged == {"list_shifts", "list_punches", "list_receipts"}

CursorOnly == {"list_locations", "list_departments", "list_roles", "list_users"}

DatesIn(kwargs) == DOMAIN kwargs \cap DateFields

\* C16: a request for shifts, punches or receipts carries modified_since and
\* no range field under the cursor window, and exactly its own range pair,
\* set to the window's start and end, and no modified_since under the range
\* window; a request for locations, departments, roles or users carries no
\* date filter under the range window.
C16_WindowToFilter ==
    \A i \in 1..Len(requests) :
        LET req == requests[i]
            kw == req.kwargs
        IN  /\ (req.api \in Ranged /\ CursorActive) =>
                   /\ DatesIn(kw) = {"modified_since"}
                   /\ kw.modified_since = dates.modified_since
            /\ (req.api \in Ranged /\ RangeActive) =>
                   /\ DatesIn(kw) = {RangePair(req.api)[1], RangePair(req.api)[2]}
                   /\ kw[RangePair(req.api)[1]] = dates.start
                   /\ kw[RangePair(req.api)[2]] = dates.end
            /\ (req.api \in CursorOnly /\ RangeActive) => DatesIn(kw) = {}

\* Approved punches fetched under the range window 2023-12-31..2024-01-01.
C16_Witness ==
    /\ sync.fn = "sync_punch_data"
    /\ RangeActive
    /\ Len(requests) = 1
    /\ requests[1].api = "list_punches"
    /\ DOMAIN requests[1].kwargs = {"clocked_in[gte]", "clocked_in[lte]", "approved"}
    /\ requests[1].kwargs["clocked_in[gte]"] =
           [ymd |-> <<2023, 12, 31>>, secs |-> 0, off |-> 0]
    /\ requests[1].kwargs["clocked_in[lte]"] =
           [ymd |-> <<2024, 1, 1>>, secs |-> 86399, off |-> 0]

RolesRan == sync.fn = "sync_role_data"

\* The roles list_roles returned to the call.
RolesIn == requests[1].result

RowsOfRole(t, role) ==
    {i \in 1..Len(db[t].rows) : db[t].rows[i].id = role.id}

StationRowsOf(role) ==
    {i \in 1..Len(db[Dest("stations")].rows) :
        db[Dest("stations")].rows[i] \in Range(StationsOf(role))}

\* C17: after the role sync, every fetched role with k > 0 stations has
\* exactly one row in the roles table and its k stations are rows of the
\* stations table, whatever the mix of roles with and without stations.
C17_RoleNormalization ==
    RolesRan =>
        \A i \in 1..Len(RolesIn) :
            RolesIn[i].num_stations > 0 =>
                /\ sync.status = "ok"
                /\ Cardinality(RowsOfRole(Dest("roles"), RolesIn[i])) = 1
                /\ Cardinality(StationRowsOf(RolesIn[i])) = RolesIn[i].num_stations

\* The single fetched role has one station: roles.drop(columns=['stations'])
\* raises KeyError and neither table is written.
C17_Witness ==
    /\ RolesRan
    /\ RolesIn = <<[id |-> 1, num_stations |-> 1]>>
    /\ sync.status = "KeyError"
    /\ db = pre
    /\ ops = << >>

ReceiptsDone == rpc = "done"

\* The locations list_locations returned to sync_receipt_data.
LocationsIn == requests[1].result

RECURSIVE TotalLen(_, _)
TotalLen(f, locs) ==
    IF locs = << >> THEN 0 ELSE Len(f[Head(locs)]) + TotalLen(f, Tail(locs))

ReceiptRowsOf(l) ==
    LET From(r) == r \in Range(api[l])
    IN  SelectSeq(db[Dest("receipts")].rows, From)

\* C18: sync_receipt_data asks for the company's locations without any date
\* filter, then makes one receipt request per location, in order and with
\* that location's id; every location's stream ends in a call of the write
\* step, which issues no sink operation when the buffer is empty; the
\* receipts of every location are in the table and the value returned is
\* the number of rows written over all locations.
C18_ReceiptFanOut ==
    ReceiptsDone =>
        /\ requests[1].api = "list_locations"
        /\ requests[1].kwargs = << >>
        /\ Len(requests) = 1 + Len(LocationsIn)
        /\ \A i \in 1..Len(LocationsIn) :
               /\ requests[i + 1].api = "list_receipts"
               /\ "location_id" \in DOMAIN requests[i + 1].kwargs
               /\ requests[i + 1].kwargs.location_id = LocationsIn[i]
               /\ requests[i + 1].result = api[LocationsIn[i]]
               /\ FlushesOf(LocationsIn[i]) # << >>
               /\ ReceiptRowsOf(LocationsIn[i]) = api[LocationsIn[i]]
        /\ \A i \in 1..Len(flushes) :
               flushes[i].rows = << >> =>
                   (flushes[i].ops = << >> /\ ~flushes[i].changed)
        /\ sync.ret = SumRet(flushes)
        /\ sync.ret = TotalLen(api, LocationsIn)

\* Location 1 holds 3 receipts and location 2 none, chunk_size is 1000 and
\* the table does not exist yet: 3 rows are written and 3 is returned; the
\* write step is called for location 2 and does nothing.
C18_Witness ==
    /\ ReceiptsDone
    /\ pre = EmptySink
    /\ LocationsIn = <<1, 2>>
    /\ chunk_size = DefaultChunkSize
    /\ Len(api[1]) = 3 /\ Len(api[2]) = 0
    /\ Len(db[Dest("receipts")].rows) = 3
    /\ sync.ret = 3
    /\ Len(flushes) = 2
    /\ flushes[2] = [loc |-> 2, rows |-> << >>, ret |-> 0, ops |-> << >>,
                     changed |-> FALSE]

(***************************************************************************)
(* Properties of parse_dates.                                              *)
(***************************************************************************)
\* The calendar's successor, written out from the month lengths.
NextDay(d) ==
    IF d[3] < DaysInMonth(d[1], d[2]) THEN <<d[1], d[2], d[3] + 1>>
    ELSE IF d[2] < 12 THEN <<d[1], d[2] + 1, 1>>
    ELSE <<d[1] + 1, 1, 1>>

CalendarDays ==
    {d \in (2023..2024) \X (1..12) \X (1..31) : ValidDate(d)}

PrevDay(d) == CHOOSE p \in CalendarDays : NextDay(p) = d

\* d1 <= d2 as YYYY-MM-DD strings
DateLeq(d1, d2) ==
    \/ d1[1] < d2[1]
    \/ d1[1] = d2[1] /\ d1[2] < d2[2]
    \/ d1[1] = d2[1] /\ d1[2] = d2[2] /\ d1[3] <= d2[3]

\* d2 - d1 in days, counted one calendar day at a time
RECURSIVE DaysBetween(_, _)
DaysBetween(d1, d2) ==
    IF d1 = d2 THEN 0 ELSE 1 + DaysBetween(NextDay(d1), d2)

\* the UTC instant (seconds since the epoch) of day d's midnight at offset off
LocalMidnight(d, off) ==
    (Ymd2Ord(d) - Ymd2Ord(<<1970, 1, 1>>)) * 86400 - off

Resolved == dpc = "done"

RangeCase ==
    /\ Resolved
    /\ args.modified_since = None
    /\ args.start_date # None /\ ValidDate(args.start_date)
    /\ args.end_date # None /\ ValidDate(args.end_date)
    /\ DateLeq(args.start_date, args.end_date)

\* C8: with --start-date=d1 <= --end-date=d2 (valid strings, no
\* --modified-since) and a fixed local offset, start is the UTC instant of
\* d1's local midnight and end the UTC instant of d2's local midnight plus
\* 23:59:59; so start < end and end - start = days(d1, d2) * 86400 + 86399.
C8_RangeWindow ==
    RangeCase =>
        LET s == Timestamp(dates.start)
            e == Timestamp(dates.end)
        IN  /\ DOMAIN dates = {"start", "end"}
            /\ dates.start.off = 0 /\ dates.end.off = 0
            /\ s = LocalMidnight(args.start_date, utcoffset)
            /\ e = LocalMidnight(args.end_date, utcoffset) + 86399
            /\ s < e
            /\ e - s = DaysBetween(args.start_date, args.end_date) * 86400 + 86399

\* A window from New Year's Eve over the leap day, resolved at UTC+05:30:
\* it starts at 18:30 UTC of the day before.
C8_Witness ==
    /\ RangeCase
    /\ args.start_date = <<2023, 12, 31>>
    /\ args.end_date = <<2024, 3, 1>>
    /\ utcoffset = 5 * 3600 + 1800
    /\ dates.start = [ymd |-> <<2023, 12, 30>>, secs |-> 66600, off |-> 0]
    /\ dates.end = [ymd |-> <<2024, 3, 1>>, secs |-> 66599, off |-> 0]

DefaultCase ==
    /\ Resolved
    /\ args.modified_since = None
    /\ args.start_date = None
    /\ args.end_date = None

\* C9: with no option given the window is exactly yesterday in local time:
\* start is yesterday's local midnight, end is start + 23:59:59, the next
\* second is today's local midnight and the second before start is the last
\* one of the day before yesterday.
C9_DefaultWindow ==
    DefaultCase =>
        LET s == Timestamp(dates.start)
            e == Timestamp(dates.end)
            yday == PrevDay(clock)
        IN  /\ DOMAIN dates = {"start", "end"}
            /\ s = LocalMidnight(yday, utcoffset)
            /\ e = s + 86399
            /\ e + 1 = LocalMidnight(clock, utcoffset)
            /\ e < LocalMidnight(clock, utcoffset)
            /\ s > LocalMidnight(PrevDay(yday), utcoffset) + 86399

\* On 2024-03-01 at UTC+13:00 yesterday is the leap day, which starts at
\* 11:00 UTC on February 28th.
C9_Witness ==
    /\ DefaultCase
    /\ clock = <<2024, 3, 1>>
    /\ utcoffset = 13 * 3600
    /\ dates.start = [ymd |-> <<2024, 2, 28>>, secs |-> 39600, off |-> 0]
    /\ dates.end = [ymd |-> <<2024, 2, 29>>, secs |-> 39599, off |-> 0]

\* C10: the result of parse_dates has exactly one variant.  With
\* --modified-since it is the cursor (modified_since and yesterday's date, no
\* start/end) whatever --start-date/--end-date say; without it, it is start
\* and end and no modified_since (or the ValueError of a date string that
\* does not parse).
C10_OneVariant ==
    Resolved =>
        IF args.modified_since # None
        THEN /\ DOMAIN dates = {"modified_since", "modified_end_ymd"}
             /\ dates.modified_since = args.modified_since
             /\ dates.modified_end_ymd = PrevDay(clock)
             /\ dates = parse_dates([args EXCEPT !.start_date = None,
                                                 !.end_date = None],
                                    clock, utcoffset)
        ELSE \/ DOMAIN dates = {"start", "end"}
             \/ /\ DOMAIN dates = {"error"}
                /\ \E str \in {args.start_date, args.end_date} \ {None} :
                       ~ValidDate(str)

\* --modified-since together with a start date that would not even parse and
\* an end date: the cursor variant, as of 2023-12-31 on New Year's Day.
C10_Witness ==
    /\ Resolved
    /\ args.modified_since # None
    /\ args.start_date = <<2023, 2, 29>>
    /\ args.end_date = <<2024, 2, 29>>
    /\ clock = <<2024, 1, 1>>
    /\ dates = [modified_since |-> args.modified_since,
                modified_end_ymd |-> <<2023, 12, 31>>]

StartOnlyCase ==
    /\ Resolved
    /\ args.modified_since = None
    /\ args.start_date # None /\ ValidDate(args.start_date)
    /\ args.end_date = None

\* The instant (seconds since the epoch) falls on local day d.
OnLocalDay(ts, d, off) ==
    /\ LocalMidnight(d, off) <= ts
    /\ ts <= LocalMidnight(d, off) + 86399

\* C11: with --start-date and no --end-date the last day of the window is
\* today: the window's end falls on today's local date.
C11_EndDefaultsToToday ==
    StartOnlyCase => OnLocalDay(Timestamp(dates.end), clock, utcoffset)

\* What parse_dates does with --start-date alone: the window ends at
\* 23:59:59 of the start date itself.
C11_EndIsStartDay ==
    StartOnlyCase =>
        /\ Timestamp(dates.end) = Timestamp(dates.start) + 86399
        /\ OnLocalDay(Timestamp(dates.end), args.start_date, utcoffset)

\* --start-date=2023-12-30 given on 2024-03-01: the window ends on
\* 2023-12-30, two months before today.
C11_Witness ==
    /\ StartOnlyCase
    /\ args.start_date = <<2023, 12, 30>>
    /\ clock = <<2024, 3, 1>>
    /\ utcoffset = 0
    /\ dates.end = [ymd |-> <<2023, 12, 30>>, secs |-> 86399, off |-> 0]

(***************************************************************************)
(* Properties of two db_upsert invocations running at once.                *)
(***************************************************************************)
BothDone == \A p \in Procs : calls[p].pc = "done"

Failed(p) == calls[p].retval.status = "error"

Logged(p, step) == \E i \in 1..Len(ops) : ops[i] = <<p, step>>

\* The other caller's DROP came after p's temp write and before any DROP
\* of p: the temp table p relies on was taken away under it.
DroppedUnder(p) ==
    \E i, j \in 1..Len(ops) :
        /\ i < j
        /\ ops[i] = <<p, "tmp">>
        /\ ops[j] = <<Other(p), "drop">>
        /\ \A k \in 1..j : ops[k] # <<p, "drop">>

\* One caller ran from entry to return before the other entered.
OneAfterTheOther ==
    \E p \in Procs : \A i, j \in 1..Len(ops) :
        (ops[i][1] = p /\ ops[j][1] = Other(p)) => i < j

CountOf(rows, r) == Cardinality({i \in 1..Len(rows) : rows[i] = r})

SameContent(a, b) ==
    \A r \in Range(a) \cup Range(b) : CountOf(a, r) = CountOf(b, r)

\* The destination after the two upserts run one after the other, p first.
SerialResult(p) ==
    DbUpsert(DbUpsert(pre, table, calls[p].frame),
             table, calls[Other(p)].frame)[table].rows

IsSerial == \E p \in Procs : SameContent(db[table].rows, SerialResult(p))

\* C4: both invocations use the one temp table upsert_tmp_<destination>
\* and race on it.  An invocation fails exactly when the other one's DROP
\* falls between its own temp write and its own DROP, and then on the
\* DELETE or the DROP; only invocations that run one after the other are
\* sure to succeed, leave a serial result and no temp table.
C4_TmpTableRace ==
    BothDone =>
        /\ \A p \in Procs :
               /\ Failed(p) <=> DroppedUnder(p)
               /\ Failed(p) => calls[p].retval.at \in {"delete", "drop"}
        /\ OneAfterTheOther =>
               /\ \A p \in Procs : ~Failed(p)
               /\ IsSerial
               /\ ~HasTable(db, TmpTable(table))

\* Caller 2 replaces the temp table caller 1 has written; caller 1 then
\* deletes by caller 2's key and drops the table, so caller 2 fails on its
\* DELETE.  The row of key 1 is lost though no upsert of key 1 succeeded,
\* which no serial execution produces.
C4_Witness ==
    /\ BothDone
    /\ pre[table].rows = <<[id |-> 1, v |-> 1]>>
    /\ calls[1].frame.rows = <<[id |-> 2, v |-> 1]>>
    /\ calls[2].frame.rows = <<[id |-> 1, v |-> 2]>>
    /\ ops = <<<<1, "has_table">>, <<2, "has_table">>, <<1, "tmp">>,
               <<2, "tmp">>, <<1, "delete">>, <<1, "drop">>, <<1, "append">>,
               <<2, "fail">>>>
    /\ calls[1].retval.status = "ok"
    /\ calls[2].retval = Error("delete")
    /\ db[table].rows = <<[id |-> 2, v |-> 1]>>
    /\ ~IsSerial

====
